---- MODULE Spec2Model ----
(***************************************************************************)
(* The order book of the nanosecond-arbiter matching engine                *)
(* (src/src/matching_engine.rs): two BTreeMap<u64, Vec<Order>> sides and   *)
(* OrderBook::add_limit_order, which matches an inbound limit order        *)
(* against the opposing side and rests what is left.                       *)
(*                                                                         *)
(* A BTreeMap<u64, Vec<Order>> is a function from its set of keys to       *)
(* sequences of orders; a key whose Vec is empty is still a key.  A        *)
(* Vec<Order> is a sequence: push appends at the end, pop removes the end. *)
(***************************************************************************)
EXTENDS Integers, Sequences, FiniteSets, TLC

\* ---------------------------------------------------------------- bounds
\* Prices are the MaxPrice prices from PriceBase upward, quantities are
\* 0..MaxQty (add_limit_order takes any u64 quantity, 0 included), and at most
\* MaxOrders orders are submitted.
MaxPrice == 3
MaxQty == 2
MaxOrders == 3

\* The ring buffer's capacity (1024 in main.rs) and the number of orders the
\* producer thread sends (1_000_000 in main.rs), scaled down.
RING_BUFFER_CAPACITY == 2
TOTAL_ORDERS == 4

\* The gateway serves NumClients connections, which send MaxLines lines in
\* all.
NumClients == 2
MaxLines == 3

\* http_server.rs: the number of requests the server accepts.
MaxRequests == 3

VARIABLES
    bids,        \* OrderBook.bids : price -> Vec<Order>
    asks,        \* OrderBook.asks : price -> Vec<Order>
    order,       \* the argument of the latest add_limit_order call, as passed
    executions,  \* the Vec<TradeExecution> the latest call returned
    calls,       \* number of add_limit_order calls so far
    injected,    \* per side, the total quantity submitted so far
    traded,      \* the total quantity of all executions so far
    buffer,      \* the ring buffer's slots, 0..RING_BUFFER_CAPACITY-1
    head,        \* the ring buffer's published read index
    tail,        \* the ring buffer's published write index
    producer,    \* main.rs, producer thread: pc, i, orders_sent, push_result
    consumer,    \* main.rs, consumer thread: pc, orders_processed, packet, pop_result
    pushed,      \* the packets whose push returned Ok, in that order
    popped,      \* the packets that pop returned, in that order
    clients,     \* gateway.rs, per connection: the handle_client thread
    mutex,       \* gateway.rs: holder of the Mutex<Producer>, 0 when free
    responses,   \* per connection, the lines answered and the status written
    handlers,    \* http_server.rs, per request: the handle_request thread
    book_mutex,  \* http_server.rs: holder of the Mutex<OrderBook>, 0 when free
    emitted      \* every execution pushed so far, in the order of the pushes

\* The lowest price submitted: $100.00 in cents.
PriceBase == 10000

bookVars == <<bids, asks, order, executions, calls, injected, traded>>
queueVars == <<buffer, head, tail>>
pipeVars == <<producer, consumer, pushed, popped>>

gatewayVars == <<clients, mutex, responses>>

httpVars == <<handlers, book_mutex, emitted>>

vars == <<bookVars, queueVars, pipeVars, gatewayVars, httpVars>>

\* ------------------------------------------------------------ data types
\* enum OrderSide
OrderSide == {"Buy", "Sell"}

\* struct Order
Order(id, side, price, quantity) ==
    [id |-> id, side |-> side, price |-> price, quantity |-> quantity]

\* A slip: the two ids are written into each other's field.
TradeExecutionSwapped(maker_order_id, taker_order_id, price, quantity) ==
    [maker_order_id |-> taker_order_id, taker_order_id |-> maker_order_id,
     price |-> price, quantity |-> quantity]

\* struct TradeExecution
TradeExecution(maker_order_id, taker_order_id, price, quantity) ==
    [maker_order_id |-> maker_order_id, taker_order_id |-> taker_order_id,
     price |-> price, quantity |-> quantity]

\* BTreeMap::new()
EmptyMap == [p \in {} |-> << >>]

\* ------------------------------------------------------- BTreeMap, Vec
\* asks.iter_mut().next(): the entry with the smallest key
FirstKey(map) == CHOOSE p \in DOMAIN map : \A q \in DOMAIN map : p <= q

\* bids.iter_mut().next_back(): the entry with the largest key
LastKey(map) == CHOOSE p \in DOMAIN map : \A q \in DOMAIN map : p >= q

\* orders.pop(): the element removed, which is the last one of the Vec
PopValue(orders) == orders[Len(orders)]

\* A slip: the maker is read with last() and never removed from the Vec.
PopRestKeepsMaker(orders) == orders

\* A slip: the level is cleared, the orders behind the maker go with it.
PopRestClearsLevel(orders) == << >>

\* orders.pop(): what is left of the Vec
PopRest(orders) == SubSeq(orders, 1, Len(orders) - 1)

\* A slip: insert(price, vec![order]) in place of entry().push(): the level
\* is replaced by the new order alone.
EntryPushReplacesLevel(map, o) ==
    [p \in DOMAIN map \cup {o.price} |-> IF p = o.price THEN <<o>> ELSE map[p]]

\* A slip: the order goes into the first level of the side, whatever its
\* price, when the side has a level.
EntryPushAtBest(map, o) ==
    IF DOMAIN map = {}
    THEN [p \in {o.price} |-> <<o>>]
    ELSE [map EXCEPT ![FirstKey(map)] = Append(@, o)]

\* A slip: the order is inserted at index 0 of the level's Vec.
EntryPushFront(map, o) ==
    [p \in DOMAIN map \cup {o.price} |->
        IF p = o.price
        THEN <<o>> \o (IF p \in DOMAIN map THEN map[p] ELSE << >>)
        ELSE map[p]]

\* map.entry(price).or_insert_with(Vec::new).push(order)
EntryPush(map, o) ==
    [p \in DOMAIN map \cup {o.price} |->
        IF p = o.price
        THEN Append(IF p \in DOMAIN map THEN map[p] ELSE << >>, o)
        ELSE map[p]]

\* ------------------------------------------------------ the match loop
\* A slip: the whole maker quantity is taken, whatever the taker has left.
MatchQuantityOfMaker(a, b) == b

\* A slip: nothing is matched.
MatchQuantityZero(a, b) == 0

\* A slip: max in place of min.
MatchQuantityMax(a, b) == IF a >= b THEN a ELSE b

\* std::cmp::min(order.quantity, matched_order.quantity)
MatchQuantity(a, b) == IF a <= b THEN a ELSE b

\* A slip: the limit price is never compared with the best opposing price.
CrossesAnyPrice(o, best_price) == TRUE

\* if order.price >= best_ask_price  /  if order.price <= best_bid_price
Crosses(o, best_price) ==
    IF o.side = "Buy" THEN o.price >= best_price ELSE o.price <= best_price

\* A slip: next() and next_back() swapped, the worst opposing entry is taken.
BestKeyWrongEnd(o, book) == IF o.side = "Buy" THEN LastKey(book) ELSE FirstKey(book)

\* the best opposing entry: the first ask for a Buy, the last bid for a Sell
BestKey(o, book) == IF o.side = "Buy" THEN FirstKey(book) ELSE LastKey(book)

\* A slip: a partially filled maker is not pushed back.
PutBackNever(orders, matched_order) == orders

\* if matched_order.quantity > 0 { orders.push(matched_order) }
PutBack(orders, matched_order) ==
    IF matched_order.quantity > 0 THEN Append(orders, matched_order) ELSE orders

\* A slip: the key of a level that the match has emptied is removed.
MatchOnceRemovesKey(book, o, execs) ==
    LET best_price == BestKey(o, book)
        orders == book[best_price]
        matched_order == PopValue(orders)
        match_quantity == MatchQuantity(o.quantity, matched_order.quantity)
        maker == [matched_order EXCEPT !.quantity = @ - match_quantity]
        left == PutBack(PopRest(orders), maker)
    IN  [book |-> [p \in (IF left = << >> THEN DOMAIN book \ {best_price}
                                           ELSE DOMAIN book) |->
                      IF p = best_price THEN left ELSE book[p]],
         order |-> [o EXCEPT !.quantity = @ - match_quantity],
         executions |-> Append(execs,
                          TradeExecution(matched_order.id, o.id,
                                         best_price, match_quantity))]

\* One iteration body at "MATCH!": pop the maker, emit the execution,
\* subtract the matched quantity from both orders, put the maker back if it
\* has quantity left.  The key stays in the map even when its Vec is empty.
MatchOnce(book, o, execs) ==
    LET best_price == BestKey(o, book)
        orders == book[best_price]
        matched_order == PopValue(orders)
        match_quantity == MatchQuantity(o.quantity, matched_order.quantity)
        maker == [matched_order EXCEPT !.quantity = @ - match_quantity]
    IN  [book |-> [book EXCEPT ![best_price] = PutBack(PopRest(orders), maker)],
         order |-> [o EXCEPT !.quantity = @ - match_quantity],
         executions |-> Append(execs,
                          TradeExecution(matched_order.id, o.id,
                                         best_price, match_quantity))]

\* while order.quantity > 0 { ... }: the loop goes on while the opposing map
\* has an entry, the best entry's key crosses the limit and its Vec yields an
\* order; each of the three failing is a break.
Matches(book, o) ==
    /\ o.quantity > 0
    /\ DOMAIN book # {}
    /\ Crosses(o, BestKey(o, book))
    /\ Len(book[BestKey(o, book)]) > 0

RECURSIVE MatchLoop(_, _, _)
MatchLoop(book, o, execs) ==
    IF Matches(book, o)
    THEN LET r == MatchOnce(book, o, execs)
         IN  MatchLoop(r.book, r.order, r.executions)
    ELSE [book |-> book, order |-> o, executions |-> execs]

\* A slip: the residual is pushed without the quantity test.
RestWhateverIsLeft(map, o) == EntryPush(map, o)

\* A slip: the residual is added to the quantity of the last order of its
\* level when the level holds one.
RestMergesLevel(map, o) ==
    IF o.quantity > 0 /\ o.price \in DOMAIN map /\ Len(map[o.price]) > 0
    THEN [map EXCEPT ![o.price][Len(map[o.price])].quantity = @ + o.quantity]
    ELSE IF o.quantity > 0 THEN EntryPush(map, o) ELSE map

\* A slip: the entry for the price is taken before the quantity test, so a
\* filled order leaves an empty level at its price.
RestCreatesLevel(map, o) ==
    IF o.quantity > 0 THEN EntryPush(map, o)
    ELSE [p \in DOMAIN map \cup {o.price} |->
             IF p \in DOMAIN map THEN map[p] ELSE << >>]

\* if order.quantity > 0 { own_side.entry(order.price)...push(order) }
Rest(map, o) == IF o.quantity > 0 THEN EntryPush(map, o) ELSE map

RECURSIVE SumQuantity(_)
SumQuantity(s) ==
    IF Len(s) = 0 THEN 0 ELSE s[1].quantity + SumQuantity(Tail(s))

\* ------------------------------------------------------------- actions
\* The order no call has passed yet.
NoOrder == Order(0, "Buy", 0, 0)

\* OrderBook::new()
BookInit ==
    /\ bids = EmptyMap
    /\ asks = EmptyMap
    /\ order = NoOrder
    /\ executions = << >>
    /\ calls = 0
    /\ injected = [s \in OrderSide |-> 0]
    /\ traded = 0

\* OrderBook::add_limit_order(order)
add_limit_order(o) ==
    LET r == MatchLoop(IF o.side = "Buy" THEN asks ELSE bids, o, << >>)
    IN  /\ IF o.side = "Buy"
           THEN /\ asks' = r.book
                /\ bids' = Rest(bids, r.order)
           ELSE /\ bids' = r.book
                /\ asks' = Rest(asks, r.order)
        /\ executions' = r.executions
        /\ order' = o
        /\ calls' = calls + 1
        /\ injected' = [injected EXCEPT ![o.side] = @ + o.quantity]
        /\ traded' = traded + SumQuantity(r.executions)

\* --------------------------------------------------- the SPSC ring buffer
\* struct Packet, Packet::new
Packet(o) == [order |-> o]

\* A slot that holds no packet.
NoPacket == Packet(NoOrder)

\* The capacity of the ring: the number of slots it was built with.
Capacity == Cardinality(DOMAIN buffer)

\* A slip: the indices run over the capacity only, with no extra bit.
IndexSpaceOfCapacity == Capacity

\* The indices run over twice the capacity, which tells a full ring (the
\* indices differ by the capacity) from an empty one (they are equal).
IndexSpace == 2 * Capacity

\* The number of packets between the read index h and the write index t.
Held(h, t) == (t - h + IndexSpace) % IndexSpace

\* A slip: the ring is never seen as full.
IsFullNever(h, t) == FALSE

\* push finds no free slot
IsFull(h, t) == Held(h, t) = Capacity

\* pop finds no packet
IsEmpty(h, t) == h = t

\* A slip: every index maps to the first slot.
SlotOfFirst(idx) == 0

\* The slot an index maps to.
SlotOf(idx) == idx % Capacity

\* A slip: the indices wrap at the capacity, so a full ring looks empty.
NextIndexWrapsAtCapacity(idx) == (idx + 1) % Capacity

\* The index after idx.
NextIndex(idx) == (idx + 1) % IndexSpace

\* RingBuffer::new(capacity)
RingBufferNew(capacity) ==
    /\ buffer = [k \in 0..(capacity - 1) |-> NoPacket]
    /\ head = 0
    /\ tail = 0

\* rtrb::RingBuffer::<Packet>::new(RING_BUFFER_CAPACITY)
QueueInit == RingBufferNew(RING_BUFFER_CAPACITY)

\* ------------------------------------------- main.rs: the two threads
\* The i-th order of the producer thread.
MarketOrder(i) ==
    Order(i, IF i % 2 = 0 THEN "Buy" ELSE "Sell", PriceBase + (i % 100), 100)

\* No thread has been spawned.
PipeOff ==
    /\ producer = [pc |-> "off", i |-> 0, orders_sent |-> 0, push_result |-> "none"]
    /\ consumer = [pc |-> "off", orders_processed |-> 0, packet |-> NoPacket,
                   pop_result |-> "none"]
    /\ pushed = << >>
    /\ popped = << >>

\* Both threads spawned, each about to make its first queue call.
PipeInit ==
    /\ producer = [pc |-> "push", i |-> 0, orders_sent |-> 0, push_result |-> "none"]
    /\ consumer = [pc |-> "pop", orders_processed |-> 0, packet |-> NoPacket,
                   pop_result |-> "none"]
    /\ pushed = << >>
    /\ popped = << >>

\* producer.push(packet.clone()), first half: load both indices; on a full
\* ring return Err at once (the thread goes to yield_now), otherwise go on
\* to write the slot.
ProducerPush ==
    /\ producer.pc = "push"
    /\ producer' = IF IsFull(head, tail)
                   THEN [producer EXCEPT !.pc = "yield", !.push_result = "Full"]
                   ELSE [producer EXCEPT !.pc = "write"]
    /\ UNCHANGED <<httpVars, bookVars, queueVars, consumer, pushed, popped, gatewayVars>>

\* push, second half: write the packet into the slot at the write index.
ProducerWrite ==
    /\ producer.pc = "write"
    /\ buffer' = [buffer EXCEPT ![SlotOf(tail)] = Packet(MarketOrder(producer.i))]
    /\ producer' = [producer EXCEPT !.pc = "publish"]
    /\ UNCHANGED <<httpVars, bookVars, head, tail, consumer, pushed, popped, gatewayVars>>

\* push, last step: publish the new write index and return Ok.
ProducerPublish ==
    /\ producer.pc = "publish"
    /\ tail' = NextIndex(tail)
    /\ pushed' = Append(pushed, Packet(MarketOrder(producer.i)))
    /\ producer' = [producer EXCEPT !.pc = "count", !.push_result = "Ok"]
    /\ UNCHANGED <<httpVars, bookVars, buffer, head, consumer, popped, gatewayVars>>

\* Ok(_) => { orders_sent += 1; break; } and the for loop goes to the next
\* i or ends.
ProducerCount ==
    /\ producer.pc = "count"
    /\ producer' = [producer EXCEPT
                      !.pc = IF producer.i + 1 < TOTAL_ORDERS THEN "push" ELSE "done",
                      !.i = @ + 1,
                      !.orders_sent = @ + 1]
    /\ UNCHANGED <<httpVars, bookVars, queueVars, consumer, pushed, popped, gatewayVars>>

\* A slip: on a full ring the producer gives the order up and goes on to
\* the next one.
ProducerDropsOnFull ==
    /\ producer.pc = "yield"
    /\ producer' = [producer EXCEPT
                      !.pc = IF producer.i + 1 < TOTAL_ORDERS THEN "push" ELSE "done",
                      !.i = @ + 1]
    /\ UNCHANGED <<httpVars, bookVars, queueVars, consumer, pushed, popped, gatewayVars>>

\* Err(_) => { spin_count += 1; thread::yield_now(); } and the loop retries
\* the same packet.
ProducerYield ==
    /\ producer.pc = "yield"
    /\ producer' = [producer EXCEPT !.pc = "push"]
    /\ UNCHANGED <<httpVars, bookVars, queueVars, consumer, pushed, popped, gatewayVars>>

\* consumer.pop(), first half, under while orders_processed < TOTAL_ORDERS:
\* load both indices; on an empty ring return Err at once.
ConsumerPop ==
    /\ consumer.pc = "pop"
    /\ consumer' = IF IsEmpty(head, tail)
                   THEN [consumer EXCEPT !.pc = "yield", !.pop_result = "Empty"]
                   ELSE [consumer EXCEPT !.pc = "read"]
    /\ UNCHANGED <<httpVars, bookVars, queueVars, producer, pushed, popped, gatewayVars>>

\* pop, second half: move the packet out of the slot at the read index.
ConsumerRead ==
    /\ consumer.pc = "read"
    /\ consumer' = [consumer EXCEPT !.pc = "publish", !.packet = buffer[SlotOf(head)]]
    /\ buffer' = [buffer EXCEPT ![SlotOf(head)] = NoPacket]
    /\ UNCHANGED <<httpVars, bookVars, head, tail, producer, pushed, popped, gatewayVars>>

\* pop, last step: publish the new read index and return Ok(packet); then
\* orders_processed += 1.  The packet is counted and dropped: the thread
\* holds no OrderBook and calls nothing with the order.
ConsumerPublish ==
    /\ consumer.pc = "publish"
    /\ head' = NextIndex(head)
    /\ popped' = Append(popped, consumer.packet)
    /\ consumer' = [pc |-> IF consumer.orders_processed + 1 < TOTAL_ORDERS
                           THEN "pop" ELSE "done",
                    orders_processed |-> consumer.orders_processed + 1,
                    packet |-> NoPacket,
                    pop_result |-> "Ok"]
    /\ UNCHANGED <<httpVars, bookVars, buffer, tail, producer, pushed, gatewayVars>>

\* Err(_) => thread::yield_now(), and the while loop pops again.
ConsumerYield ==
    /\ consumer.pc = "yield"
    /\ consumer' = [consumer EXCEPT !.pc = "pop"]
    /\ UNCHANGED <<httpVars, bookVars, queueVars, producer, pushed, popped, gatewayVars>>

\* ------------------------------------------- gateway.rs: handle_client
\* A line a client sends: whitespace only ("blank"), text that is no JSON
\* object ("text"), or a JSON object with the four fields of Order ("json").
Line(kind, id, side, price, quantity) ==
    [kind |-> kind, id |-> id, side |-> side, price |-> price, quantity |-> quantity]

\* The lines the n-th line of connection c is drawn from; the id tells the
\* lines of a run apart.
Lines(c, n) ==
    LET id == 10 * c + n
    IN  { Line("blank", 0, "Buy", 0, 0),
          Line("text", 0, "Buy", 0, 0),
          Line("json", id, "Buy", PriceBase, 1),
          Line("json", id, "Sell", PriceBase, 0) }

\* What a handler thread holds between two lines.
NoLine == Line("blank", 0, "Buy", 0, 0)

\* A slip: no line is taken for blank.
IsBlankNever(line) == FALSE

\* line.trim().is_empty()
IsBlank(line) == line.kind = "blank"

\* A slip: a line that does not parse yields a default order
\* (unwrap_or_default) in place of the error.
ParseOrderOrDefault(line) ==
    IF line.kind = "json" /\ line.side \in OrderSide
          /\ line.id >= 0 /\ line.price >= 0 /\ line.quantity >= 0
    THEN [ok |-> TRUE, order |-> Order(line.id, line.side, line.price, line.quantity)]
    ELSE [ok |-> TRUE, order |-> NoOrder]

\* serde_json::from_str::<Order>(&line): Ok for a JSON object whose side is
\* a variant of OrderSide and whose id, price and quantity are u64 (0
\* included, a negative number is no u64), Err otherwise.
ParseOrder(line) ==
    IF line.kind = "json" /\ line.side \in OrderSide
          /\ line.id >= 0 /\ line.price >= 0 /\ line.quantity >= 0
    THEN [ok |-> TRUE, order |-> Order(line.id, line.side, line.price, line.quantity)]
    ELSE [ok |-> FALSE, order |-> NoOrder]

\* The number of lines the connections 1..c have sent.
RECURSIVE Received(_)
Received(c) == IF c = 0 THEN 0 ELSE clients[c].received + Received(c - 1)

\* The status of the response line written to the client.
Response(line, status) == [line |-> line, status |-> status]

\* No connection is open.
GatewayOff ==
    /\ clients = [c \in {} |-> 0]
    /\ mutex = 0
    /\ responses = [c \in {} |-> << >>]

\* run_gateway has spawned a handle_client thread per connection; each
\* waits for its first line.  received and nonblank count the lines the
\* connection has delivered, and those of them that are not whitespace only.
GatewayInit ==
    /\ clients = [c \in 1..NumClients |->
                    [pc |-> "read", received |-> 0, nonblank |-> 0,
                     packet |-> NoPacket, line |-> NoLine,
                     push_result |-> "none"]]
    /\ mutex = 0
    /\ responses = [c \in 1..NumClients |-> << >>]

\* while let Some(Ok(line)) = lines.next(): the next line arrives.  A blank
\* line is skipped (continue); a line that fails to parse is answered with
\* the error response; a parsed order is wrapped in a Packet and the thread
\* goes to lock the producer.
GwLine(c) ==
    /\ clients[c].pc = "read"
    /\ Received(NumClients) < MaxLines
    /\ \E line \in Lines(c, clients[c].received + 1) :
          LET parsed == ParseOrder(line)
              got == [clients[c] EXCEPT
                        !.received = @ + 1,
                        !.nonblank = IF line.kind = "blank" THEN @ ELSE @ + 1]
          IN  IF IsBlank(line)
              THEN /\ clients' = [clients EXCEPT ![c] = got]
                   /\ UNCHANGED responses
              ELSE IF parsed.ok
              THEN /\ clients' = [clients EXCEPT ![c] =
                          [got EXCEPT !.pc = "lock", !.line = line,
                                      !.packet = Packet(parsed.order)]]
                   /\ UNCHANGED responses
              ELSE /\ clients' = [clients EXCEPT ![c] = got]
                   /\ responses' = [responses EXCEPT ![c] =
                                      Append(@, Response(line, "error"))]
    /\ UNCHANGED <<httpVars, bookVars, queueVars, pipeVars, mutex>>

\* A slip: the handler goes on to push without waiting for the mutex.
GwLockNoWait(c) ==
    /\ clients[c].pc = "lock"
    /\ mutex' = c
    /\ clients' = [clients EXCEPT ![c].pc = "push"]
    /\ UNCHANGED <<httpVars, bookVars, queueVars, pipeVars, responses>>

\* let mut p = producer.lock().unwrap(): waits until the mutex is free.
GwLock(c) ==
    /\ clients[c].pc = "lock"
    /\ mutex = 0
    /\ mutex' = c
    /\ clients' = [clients EXCEPT ![c].pc = "push"]
    /\ UNCHANGED <<httpVars, bookVars, queueVars, pipeVars, responses>>

\* A slip: on a full ring the handler spins and pushes again, as the
\* producer thread of main.rs does.
GwPushRetries(c) ==
    /\ clients[c].pc = "push"
    /\ clients' = IF IsFull(head, tail)
                  THEN [clients EXCEPT ![c].push_result = "Full"]
                  ELSE [clients EXCEPT ![c].pc = "write"]
    /\ UNCHANGED <<httpVars, bookVars, queueVars, pipeVars, mutex, responses>>

\* p.push(packet), first half: on a full ring Err is returned at once and
\* the handler leaves the block; otherwise go on to write the slot.
GwPush(c) ==
    /\ clients[c].pc = "push"
    /\ clients' = IF IsFull(head, tail)
                  THEN [clients EXCEPT ![c].pc = "unlock", ![c].push_result = "Full"]
                  ELSE [clients EXCEPT ![c].pc = "write"]
    /\ UNCHANGED <<httpVars, bookVars, queueVars, pipeVars, mutex, responses>>

\* push, second half: write the packet into the slot at the write index.
GwWrite(c) ==
    /\ clients[c].pc = "write"
    /\ buffer' = [buffer EXCEPT ![SlotOf(tail)] = clients[c].packet]
    /\ clients' = [clients EXCEPT ![c].pc = "publish"]
    /\ UNCHANGED <<httpVars, bookVars, head, tail, pipeVars, mutex, responses>>

\* push, last step: publish the new write index and return Ok.
GwPublish(c) ==
    /\ clients[c].pc = "publish"
    /\ tail' = NextIndex(tail)
    /\ pushed' = Append(pushed, clients[c].packet)
    /\ clients' = [clients EXCEPT ![c].pc = "unlock", ![c].push_result = "Ok"]
    /\ UNCHANGED <<httpVars, bookVars, buffer, head, producer, consumer, popped, mutex, responses>>

\* A slip: the handler reads the next line once the guard is dropped,
\* without writing the response to the line it has just pushed.
GwUnlockSkipsResponse(c) ==
    /\ clients[c].pc = "unlock"
    /\ mutex' = 0
    /\ clients' = [clients EXCEPT ![c].pc = "read", ![c].line = NoLine,
                                  ![c].packet = NoPacket, ![c].push_result = "none"]
    /\ UNCHANGED <<httpVars, bookVars, queueVars, pipeVars, responses>>

\* The MutexGuard p is dropped at the end of the block around push.
GwUnlock(c) ==
    /\ clients[c].pc = "unlock"
    /\ mutex' = 0
    /\ clients' = [clients EXCEPT ![c].pc = "respond"]
    /\ UNCHANGED <<httpVars, bookVars, queueVars, pipeVars, responses>>

\* match push_result: Ok writes the accepted response, Err the dropped one;
\* the iteration ends (its locals are dropped) and the while loop reads the
\* next line.
GwRespond(c) ==
    /\ clients[c].pc = "respond"
    /\ responses' = [responses EXCEPT ![c] =
          Append(@, Response(clients[c].line,
                             IF clients[c].push_result = "Ok"
                             THEN "accepted" ELSE "dropped"))]
    /\ clients' = [clients EXCEPT ![c].pc = "read", ![c].line = NoLine,
                                  ![c].packet = NoPacket, ![c].push_result = "none"]
    /\ UNCHANGED <<httpVars, bookVars, queueVars, pipeVars, mutex>>

\* ------------------------------------------ http_server.rs: handle_request
\* A slip: the levels are listed from the highest price down.
RECURSIVE IterDescending(_, _)
IterDescending(map, keys) ==
    IF keys = {} THEN << >>
    ELSE LET p == CHOOSE q \in keys : \A r \in keys : q >= r
         IN  <<[price |-> p, orders |-> map[p]]>> \o IterDescending(map, keys \ {p})

\* BTreeMap::iter().map(|(price, orders)| json!({"price", "orders"})).collect():
\* the entries of the given keys in the order of the iterator, lowest key
\* first, each level as it is stored.
RECURSIVE Iter(_, _)
Iter(map, keys) ==
    IF keys = {} THEN << >>
    ELSE LET p == CHOOSE q \in keys : \A r \in keys : q <= r
         IN  <<[price |-> p, orders |-> map[p]]>> \o Iter(map, keys \ {p})

\* OrderBook::to_json
to_json(b, a) == [bids |-> Iter(b, DOMAIN b), asks |-> Iter(a, DOMAIN a)]

\* The JSON document of a response that carries no book.
NoJson == [bids |-> << >>, asks |-> << >>]

\* A request: GET /api/orderbook, POST /api/order with a body, or one of
\* the routes that do not use the OrderBook (here GET /api/metrics).
Request(method, url, body) == [method |-> method, url |-> url, body |-> body]

\* The requests the n-th request is drawn from; an order's id is n.
Requests(n) ==
    { Request("GET", "/api/orderbook", NoLine),
      Request("GET", "/api/metrics", NoLine),
      Request("POST", "/api/order", Line("text", 0, "Buy", 0, 0)),
      Request("POST", "/api/order", Line("json", n, "Sell", PriceBase, 1)),
      Request("POST", "/api/order", Line("json", n, "Sell", PriceBase + 1, 1)),
      Request("POST", "/api/order", Line("json", n, "Buy", PriceBase + 1, 2)) }

\* What the client of a request is sent.
Reply(status, json) == [status |-> status, json |-> json]

NoReply == Reply("none", NoJson)

\* The server is not started.
HttpOff ==
    /\ handlers = << >>
    /\ book_mutex = 0
    /\ emitted = << >>

\* for request in server.incoming_requests() { thread::spawn(handle_request) }
HttpAccept ==
    /\ Len(handlers) < MaxRequests
    /\ \E request \in Requests(Len(handlers) + 1) :
          handlers' = Append(handlers,
              [pc |-> "route", request |-> request, order |-> NoOrder,
               taken |-> NoOrder, executions |-> << >>, response |-> NoReply])
    /\ UNCHANGED <<bookVars, queueVars, pipeVars, gatewayVars, book_mutex, emitted>>

\* A slip: GET /api/orderbook reads the book without locking it.
HttpRouteReadsUnlocked(h) ==
    /\ handlers[h].pc = "route"
    /\ LET request == handlers[h].request
           parsed == ParseOrder(request.body)
       IN  handlers' =
              IF request.url # "/api/orderbook" /\ request.url # "/api/order"
              THEN [handlers EXCEPT ![h].pc = "done",
                                    ![h].response = Reply("other", NoJson)]
              ELSE IF request.method = "GET"
              THEN [handlers EXCEPT ![h].pc = "to_json"]
              ELSE IF parsed.ok
              THEN [handlers EXCEPT ![h].pc = "lock", ![h].order = parsed.order,
                                    ![h].taken = parsed.order]
              ELSE [handlers EXCEPT ![h].pc = "done",
                                    ![h].response = Reply("error", NoJson)]
    /\ UNCHANGED <<bookVars, queueVars, pipeVars, gatewayVars, book_mutex, emitted>>

\* match (method, url): GET /api/orderbook goes to lock the book; POST
\* /api/order reads the body and parses it, an Order goes to lock the book,
\* a body that is no Order (or cannot be read) is answered with the error
\* response; every other route is answered without the OrderBook.
HttpRoute(h) ==
    /\ handlers[h].pc = "route"
    /\ LET request == handlers[h].request
           parsed == ParseOrder(request.body)
       IN  handlers' =
              IF request.url # "/api/orderbook" /\ request.url # "/api/order"
              THEN [handlers EXCEPT ![h].pc = "done",
                                    ![h].response = Reply("other", NoJson)]
              ELSE IF request.method = "GET"
              THEN [handlers EXCEPT ![h].pc = "lock"]
              ELSE IF parsed.ok
              THEN [handlers EXCEPT ![h].pc = "lock", ![h].order = parsed.order,
                                    ![h].taken = parsed.order]
              ELSE [handlers EXCEPT ![h].pc = "done",
                                    ![h].response = Reply("error", NoJson)]
    /\ UNCHANGED <<bookVars, queueVars, pipeVars, gatewayVars, book_mutex, emitted>>

\* A slip: the handler goes on without waiting for the book mutex.
HttpLockNoWait(h) ==
    /\ handlers[h].pc = "lock"
    /\ book_mutex' = h
    /\ handlers' = [handlers EXCEPT ![h].pc =
          IF handlers[h].request.method = "GET" THEN "to_json" ELSE "match"]
    /\ UNCHANGED <<bookVars, queueVars, pipeVars, gatewayVars, emitted>>

\* order_book.lock().unwrap(): waits until the mutex is free.
HttpLock(h) ==
    /\ handlers[h].pc = "lock"
    /\ book_mutex = 0
    /\ book_mutex' = h
    /\ handlers' = [handlers EXCEPT ![h].pc =
          IF handlers[h].request.method = "GET" THEN "to_json" ELSE "match"]
    /\ UNCHANGED <<bookVars, queueVars, pipeVars, gatewayVars, emitted>>

\* add_limit_order, one iteration of while order.quantity > 0, run by the
\* handler on the shared book: at MATCH! the maker is popped, the execution
\* pushed and both quantities reduced; any break, or quantity 0, leaves the
\* loop.
HttpMatch(h) ==
    /\ handlers[h].pc = "match"
    /\ LET o == handlers[h].order
           book == IF o.side = "Buy" THEN asks ELSE bids
           r == MatchOnce(book, o, handlers[h].executions)
       IN  IF Matches(book, o)
           THEN /\ IF o.side = "Buy"
                   THEN asks' = r.book /\ bids' = bids
                   ELSE bids' = r.book /\ asks' = asks
                /\ handlers' = [handlers EXCEPT ![h].order = r.order,
                                                ![h].executions = r.executions]
                /\ emitted' = Append(emitted, r.executions[Len(r.executions)])
           ELSE /\ handlers' = [handlers EXCEPT ![h].pc = "rest"]
                /\ UNCHANGED <<bids, asks, emitted>>
    /\ UNCHANGED <<order, executions, calls, injected, traded>>
    /\ UNCHANGED <<queueVars, pipeVars, gatewayVars, book_mutex>>

\* add_limit_order, after the loop: the residual rests on its own side and
\* the executions are returned.
HttpRest(h) ==
    /\ handlers[h].pc = "rest"
    /\ LET o == handlers[h].order
       IN  IF o.side = "Buy"
           THEN bids' = Rest(bids, o) /\ asks' = asks
           ELSE asks' = Rest(asks, o) /\ bids' = bids
    /\ order' = handlers[h].taken
    /\ executions' = handlers[h].executions
    /\ calls' = calls + 1
    /\ injected' = [injected EXCEPT ![handlers[h].taken.side] =
                       @ + handlers[h].taken.quantity]
    /\ traded' = traded + SumQuantity(handlers[h].executions)
    /\ handlers' = [handlers EXCEPT ![h].pc = "respond",
                                    ![h].response = Reply("accepted", NoJson)]
    /\ UNCHANGED <<queueVars, pipeVars, gatewayVars, book_mutex, emitted>>

\* let json_data = book.to_json()
HttpSnapshot(h) ==
    /\ handlers[h].pc = "to_json"
    /\ handlers' = [handlers EXCEPT ![h].pc = "respond",
                                    ![h].response = Reply("json", to_json(bids, asks))]
    /\ UNCHANGED <<bookVars, queueVars, pipeVars, gatewayVars, book_mutex, emitted>>

\* request.respond(response), then the arm ends and the MutexGuard is
\* dropped.
HttpRespond(h) ==
    /\ handlers[h].pc = "respond"
    /\ book_mutex' = 0
    /\ handlers' = [handlers EXCEPT ![h].pc = "done"]
    /\ UNCHANGED <<bookVars, queueVars, pipeVars, gatewayVars, emitted>>

\* ------------------------------------- the phase-1 simulation engine
\* matching_engine.rs at the top of the repository: the same OrderBook of
\* two BTreeMaps, with an add_limit_order that reports a cross and returns.

\* A slip: the comparison with the best opposing price is strict.
Phase1CrossesStrict(o) ==
    LET book == IF o.side = "Buy" THEN asks ELSE bids
    IN  /\ DOMAIN book # {}
        /\ IF o.side = "Buy" THEN o.price > FirstKey(book)
                             ELSE o.price < LastKey(book)

\* if let Some((&best_ask_price, _)) = self.asks.iter().next()
\*     { if order.price >= best_ask_price { ... } }
\* if let Some((&best_bid_price, _)) = self.bids.iter().next_back()
\*     { if order.price <= best_bid_price { ... } }
Phase1Crosses(o) ==
    LET book == IF o.side = "Buy" THEN asks ELSE bids
    IN  /\ DOMAIN book # {}
        /\ IF o.side = "Buy" THEN o.price >= FirstKey(book)
                             ELSE o.price <= LastKey(book)

\* OrderBook::add_limit_order(order) of the phase-1 engine: on a cross it
\* prints the trade and returns; otherwise
\* self.bids.entry(order.price).or_insert_with(Vec::new).push(order)
\* (self.asks for a Sell).
Phase1AddLimitOrder(o) ==
    /\ IF Phase1Crosses(o)
       THEN /\ bids' = bids
            /\ asks' = asks
       ELSE IF o.side = "Buy"
            THEN /\ bids' = EntryPush(bids, o)
                 /\ asks' = asks
            ELSE /\ asks' = EntryPush(asks, o)
                 /\ bids' = bids
    /\ order' = o
    /\ calls' = calls + 1
    /\ UNCHANGED <<executions, injected, traded>>

\* ------------------------------------------------------ specifications
\* The order book alone, driven by a caller.
Init == BookInit /\ QueueInit /\ PipeOff /\ GatewayOff /\ HttpOff

\* The caller submits orders with fresh ids 1, 2, 3, ...
Submit ==
    /\ calls < MaxOrders
    /\ \E side \in OrderSide, quantity \in 0..MaxQty,
          price \in PriceBase..(PriceBase + MaxPrice - 1) :
          add_limit_order(Order(calls + 1, side, price, quantity))
    /\ UNCHANGED <<queueVars, pipeVars, gatewayVars, httpVars>>

Next == Submit

Spec == Init /\ [][Next]_vars

\* The phase-1 engine alone, driven by a caller.
InitPhase1 == BookInit /\ QueueInit /\ PipeOff /\ GatewayOff /\ HttpOff

\* The caller submits orders with fresh ids 1, 2, 3, ...
SubmitPhase1 ==
    /\ calls < MaxOrders
    /\ \E side \in OrderSide, quantity \in 0..MaxQty,
          price \in PriceBase..(PriceBase + MaxPrice - 1) :
          Phase1AddLimitOrder(Order(calls + 1, side, price, quantity))
    /\ UNCHANGED <<queueVars, pipeVars, gatewayVars, httpVars>>

NextPhase1 == SubmitPhase1

SpecPhase1 == InitPhase1 /\ [][NextPhase1]_vars

\* main.rs: the producer thread and the consumer thread over the ring buffer.
InitPipe == BookInit /\ QueueInit /\ PipeInit /\ GatewayOff /\ HttpOff

NextPipe ==
    \/ ProducerPush
    \/ ProducerWrite
    \/ ProducerPublish
    \/ ProducerCount
    \/ ProducerYield
    \/ ConsumerPop
    \/ ConsumerRead
    \/ ConsumerPublish
    \/ ConsumerYield

SpecPipe == InitPipe /\ [][NextPipe]_vars

\* Both are OS threads that run until they return (main joins them), and
\* yield_now hands the core to the other one: each thread keeps taking
\* steps.
ProducerThread ==
    ProducerPush \/ ProducerWrite \/ ProducerPublish \/ ProducerCount \/ ProducerYield

ConsumerThread ==
    ConsumerPop \/ ConsumerRead \/ ConsumerPublish \/ ConsumerYield

FairSpecPipe == SpecPipe /\ WF_vars(ProducerThread) /\ WF_vars(ConsumerThread)

\* The same two threads over a ring built with a single slot.
InitPipeOne == BookInit /\ RingBufferNew(1) /\ PipeInit /\ GatewayOff /\ HttpOff

SpecPipeOne == InitPipeOne /\ [][NextPipe]_vars

FairSpecPipeOne ==
    SpecPipeOne /\ WF_vars(ProducerThread) /\ WF_vars(ConsumerThread)

\* gateway.rs: the handle_client threads share the producer behind the
\* mutex; the consumer endpoint of the ring is driven as the consumer thread
\* of main.rs drives it.
ConsumerOnly ==
    /\ producer = [pc |-> "off", i |-> 0, orders_sent |-> 0, push_result |-> "none"]
    /\ consumer = [pc |-> "pop", orders_processed |-> 0, packet |-> NoPacket,
                   pop_result |-> "none"]
    /\ pushed = << >>
    /\ popped = << >>

InitGateway == BookInit /\ QueueInit /\ ConsumerOnly /\ GatewayInit /\ HttpOff

NextGateway ==
    \/ \E c \in DOMAIN clients :
          \/ GwLine(c)
          \/ GwLock(c)
          \/ GwPush(c)
          \/ GwWrite(c)
          \/ GwPublish(c)
          \/ GwUnlock(c)
          \/ GwRespond(c)
    \/ ConsumerPop
    \/ ConsumerRead
    \/ ConsumerPublish
    \/ ConsumerYield

SpecGateway == InitGateway /\ [][NextGateway]_vars

\* http_server.rs: the server accepts requests and spawns a handle_request
\* thread for each; the threads share the OrderBook behind its mutex.
InitHttp == BookInit /\ QueueInit /\ PipeOff /\ GatewayOff /\ HttpOff

NextHttp ==
    \/ HttpAccept
    \/ \E h \in 1..Len(handlers) :
          \/ HttpRoute(h)
          \/ HttpLock(h)
          \/ HttpMatch(h)
          \/ HttpRest(h)
          \/ HttpSnapshot(h)
          \/ HttpRespond(h)

SpecHttp == InitHttp /\ [][NextHttp]_vars

\* The same, with the scheduler letting a handler thread that runs
\* add_limit_order, which waits for nothing, take its next step in the end.
InAddLimitOrder == \E h \in 1..Len(handlers) : HttpMatch(h) \/ HttpRest(h)

FairSpecHttp == SpecHttp /\ WF_vars(InAddLimitOrder)

\* ------------------------------------------------- reading the book
\* The keys of a side whose level holds at least one order.
LiveKeys(map) == {p \in DOMAIN map : Len(map[p]) > 0}

\* The positions <<price, index>> of the orders stored in a side.
Slots(map) == UNION {{<<p, i>> : i \in 1..Len(map[p])} : p \in DOMAIN map}

\* The orders stored in a side.
Resting(map) == {map[s[1]][s[2]] : s \in Slots(map)}

RECURSIVE LevelQuantity(_)
LevelQuantity(orders) ==
    IF Len(orders) = 0 THEN 0
    ELSE orders[1].quantity + LevelQuantity(Tail(orders))

RECURSIVE RestingQuantityOver(_, _)
RestingQuantityOver(map, keys) ==
    IF keys = {} THEN 0
    ELSE LET p == CHOOSE q \in keys : TRUE
         IN  LevelQuantity(map[p]) + RestingQuantityOver(map, keys \ {p})

\* The total quantity resting in a side.
RestingQuantity(map) == RestingQuantityOver(map, DOMAIN map)

\* The side an order of side s rests in, and the side it is matched against.
OwnSide(s) == IF s = "Buy" THEN bids ELSE asks
OpposingSide(s) == IF s = "Buy" THEN asks ELSE bids

\* What the latest call left of its inbound order.
Residual == order.quantity - SumQuantity(executions)

\* The quantity that the executions before the k-th took from maker id.
RECURSIVE FilledBefore(_, _, _)
FilledBefore(execs, k, id) ==
    IF k <= 1 THEN 0
    ELSE FilledBefore(execs, k - 1, id)
         + (IF execs[k - 1].maker_order_id = id THEN execs[k - 1].quantity ELSE 0)

\* p is a strictly better opposing price than q for a taker of side s.
Better(s, p, q) == IF s = "Buy" THEN p < q ELSE p > q

\* ------------------------------------------------------------- claims

\* C1: after every add_limit_order the book is not crossed: every bid price
\* that holds a resting order is strictly below every ask price that holds a
\* resting order.  (Read over the price keys instead, max(bids.keys) <
\* min(asks.keys), the statement is stronger and fails on the same runs.)
C1_NonCrossed ==
    \A b \in LiveKeys(bids) : \A a \in LiveKeys(asks) : b < a

\* C2: after every add_limit_order every price key of bids and of asks maps
\* to a level holding at least one order.
C2_NoEmptyLevel ==
    /\ \A p \in DOMAIN bids : Len(bids[p]) >= 1
    /\ \A p \in DOMAIN asks : Len(asks[p]) >= 1

\* C3: time priority.  In every call, an execution whose maker sits at index
\* j of its level (as the level stood when the call began) occurs only once
\* every order at a lower index of that level, inserted earlier, has been
\* filled completely by the executions before it.
C3_TimePriorityStep ==
    \A k \in 1..Len(executions') :
        LET book == OpposingSide(order'.side)
        IN  \A p \in DOMAIN book : \A j \in 1..Len(book[p]) :
                book[p][j].id = executions'[k].maker_order_id =>
                    \A i \in 1..(j - 1) :
                        FilledBefore(executions', k, book[p][i].id)
                            = book[p][i].quantity

C3_TimePriority == [][C3_TimePriorityStep]_vars

\* C4: an inbound order sweeps the opposing levels it crosses: when the call
\* returns with part of the inbound quantity unfilled, no order is left
\* resting on the opposing side at a price that crosses the inbound limit.
C4_SweepsCrossedLevels ==
    Residual > 0 =>
        \A p \in LiveKeys(OpposingSide(order.side)) : ~Crosses(order, p)

\* C5: every execution of a call has the price of the resting order it names
\* as maker, and that price is within the taker's limit: <= the limit of a
\* Buy, >= the limit of a Sell.
C5_MakerPriceStep ==
    \A k \in 1..Len(executions') :
        LET e == executions'[k]
        IN  /\ \E m \in Resting(OpposingSide(order'.side)) :
                  m.id = e.maker_order_id /\ m.price = e.price
            /\ order'.side = "Buy" => e.price <= order'.price
            /\ order'.side = "Sell" => e.price >= order'.price

C5_MakerPrice == [][C5_MakerPriceStep]_vars

\* A call returned an execution at a price strictly better for the taker than
\* its limit.
C5_Witness ==
    \E k \in 1..Len(executions) : Better(order.side, executions[k].price, order.price)

\* C6: price priority.  No execution of a call occurs at a price while an
\* order at a strictly better opposing price still has quantity left at that
\* moment (its quantity when the call began less what the earlier executions
\* of the call took from it).
C6_PricePriorityStep ==
    \A k \in 1..Len(executions') :
        \A m \in Resting(OpposingSide(order'.side)) :
            Better(order'.side, m.price, executions'[k].price) =>
                FilledBefore(executions', k, m.id) = m.quantity

C6_PricePriority == [][C6_PricePriorityStep]_vars

\* A call matched at one price and left orders resting at a worse opposing
\* price.
C6_Witness ==
    \E k \in 1..Len(executions) :
        \E p \in LiveKeys(OpposingSide(order.side)) :
            Better(order.side, executions[k].price, p)

\* C7: conservation.  On each side the quantity submitted so far equals the
\* quantity traded so far plus the quantity resting on that side.
C7_Conservation ==
    \A s \in OrderSide : injected[s] = traded + RestingQuantity(OwnSide(s))

\* Something has traded, and the latest call both traded and left quantity
\* resting.
C7_Witness ==
    /\ Len(executions) >= 1
    /\ RestingQuantity(bids) + RestingQuantity(asks) > 0
    /\ traded > SumQuantity(executions)

\* C8: the quantities of the executions one call returns sum to at most the
\* quantity of its inbound order.
C8_FillWithinInbound == SumQuantity(executions) <= order.quantity

\* A call returned two executions.
C8_Witness == Len(executions) >= 2

\* C9: every order stored in a level of bids or asks has quantity >= 1.
C9_RestingPositive ==
    \A o \in Resting(bids) \cup Resting(asks) : o.quantity >= 1

\* A maker of the latest call was filled in part and is still stored.
C9_Witness ==
    \E k \in 1..Len(executions) :
        \E o \in Resting(OpposingSide(order.side)) :
            o.id = executions[k].maker_order_id

\* C10: with distinct ids submitted, no order id is stored more than once in
\* the book: the stored positions of both sides carry pairwise different ids.
C10_UniqueIds ==
    LET B == Slots(bids)
        A == Slots(asks)
    IN  /\ \A s, t \in B : bids[s[1]][s[2]].id = bids[t[1]][t[2]].id => s = t
        /\ \A s, t \in A : asks[s[1]][s[2]].id = asks[t[1]][t[2]].id => s = t
        /\ \A s \in B : \A t \in A : bids[s[1]][s[2]].id # asks[t[1]][t[2]].id

\* A level holds two orders, one of them put back after a partial fill.
C10_Witness ==
    /\ \E p \in DOMAIN OpposingSide(order.side) :
          Len(OpposingSide(order.side)[p]) >= 2
    /\ \E k \in 1..Len(executions) :
          \E o \in Resting(OpposingSide(order.side)) :
              o.id = executions[k].maker_order_id

\* C11: an order of positive quantity whose limit crosses no resting opposing
\* order (none rests, or the best resting opposing price is beyond the limit)
\* returns no execution, is appended with its full quantity to the level at
\* its price on its own side, and leaves every other level of both sides as
\* it was.
C11_NoCrossStep ==
    LET o == order'
        opp == OpposingSide(o.side)
        own == OwnSide(o.side)
        opp2 == IF o.side = "Buy" THEN asks' ELSE bids'
        own2 == IF o.side = "Buy" THEN bids' ELSE asks'
    IN  (o.quantity > 0 /\ \A p \in LiveKeys(opp) : ~Crosses(o, p)) =>
            /\ executions' = << >>
            /\ opp2 = opp
            /\ DOMAIN own2 = DOMAIN own \cup {o.price}
            /\ \A p \in DOMAIN own : p # o.price => own2[p] = own[p]
            /\ own2[o.price] =
                   (IF o.price \in DOMAIN own THEN own[o.price] ELSE << >>) \o <<o>>

C11_NoCross == [][C11_NoCrossStep]_vars

\* The latest order matched nothing although orders rest on the opposing
\* side, and it rests behind an order that was at its price before it.
C11_Witness ==
    /\ order.quantity > 0
    /\ executions = << >>
    /\ LiveKeys(OpposingSide(order.side)) # {}
    /\ order.price \in DOMAIN OwnSide(order.side)
    /\ Len(OwnSide(order.side)[order.price]) >= 2
    /\ OwnSide(order.side)[order.price][Len(OwnSide(order.side)[order.price])] = order

\* C12: an inbound order whose limit crosses every opposing level and whose
\* quantity equals the total quantity resting on the opposing side leaves the
\* opposing side without any price key and adds nothing to its own side.
C12_ExactSweepStep ==
    LET o == order'
        opp == OpposingSide(o.side)
        own == OwnSide(o.side)
        opp2 == IF o.side = "Buy" THEN asks' ELSE bids'
        own2 == IF o.side = "Buy" THEN bids' ELSE asks'
    IN  (/\ o.quantity > 0
         /\ o.quantity = RestingQuantity(opp)
         /\ \A p \in DOMAIN opp : Crosses(o, p)) =>
            /\ DOMAIN opp2 = {}
            /\ own2 = own

C12_ExactSweep == [][C12_ExactSweepStep]_vars

\* C14: FIFO.  Under every interleaving of the producer and the consumer the
\* packets returned by pop are a prefix of the packets whose push returned
\* Ok, in the same order, and once both threads have finished the two
\* sequences are equal: nothing reordered, duplicated or lost.
C14_Fifo ==
    /\ Len(popped) <= Len(pushed)
    /\ popped = SubSeq(pushed, 1, Len(popped))
    /\ (producer.pc = "done" /\ consumer.pc = "done") => popped = pushed

\* The consumer has popped two packets while a later one is still queued.
C14_Witness ==
    /\ Len(popped) >= 2
    /\ Len(pushed) > Len(popped)

\* C15: push on a full ring returns Full in that one step and pop on an
\* empty ring returns Empty in that one step, each leaving the ring as it
\* was; and a thread inside a queue operation can always take its next step,
\* whatever the other thread does.
C15_FullEmptyStep ==
    /\ (producer.pc = "push" /\ producer' # producer
            /\ Held(head, tail) = RING_BUFFER_CAPACITY) =>
           /\ producer'.pc = "yield"
           /\ producer'.push_result = "Full"
           /\ <<buffer, head, tail, pushed>>' = <<buffer, head, tail, pushed>>
    /\ (consumer.pc = "pop" /\ consumer' # consumer /\ Held(head, tail) = 0) =>
           /\ consumer'.pc = "yield"
           /\ consumer'.pop_result = "Empty"
           /\ <<buffer, head, tail, popped>>' = <<buffer, head, tail, popped>>

C15_NeverBlocks ==
    /\ producer.pc = "push" => ENABLED ProducerPush
    /\ producer.pc = "write" => ENABLED ProducerWrite
    /\ producer.pc = "publish" => ENABLED ProducerPublish
    /\ consumer.pc = "pop" => ENABLED ConsumerPop
    /\ consumer.pc = "read" => ENABLED ConsumerRead
    /\ consumer.pc = "publish" => ENABLED ConsumerPublish

C15_FullEmpty == [][C15_FullEmptyStep]_vars /\ []C15_NeverBlocks

\* push has returned Full on a full ring and pop has returned Empty on an
\* empty one.
C15_Witness ==
    /\ producer.pc = "yield"
    /\ Held(head, tail) = RING_BUFFER_CAPACITY
    /\ consumer.pop_result = "Empty"

\* C16: the ring never holds more than its capacity, and a push succeeds
\* exactly when fewer than capacity packets are held when it is made.
C16_CapacityStep ==
    (producer.pc = "push" /\ producer' # producer) =>
        IF Held(head, tail) < RING_BUFFER_CAPACITY
        THEN producer'.pc = "write"
        ELSE producer'.push_result = "Full" /\ producer'.pc = "yield"

C16_Bounded ==
    /\ Len(pushed) - Len(popped) \in 0..RING_BUFFER_CAPACITY
    /\ Held(head, tail) = Len(pushed) - Len(popped)

C16_Capacity == [][C16_CapacityStep]_vars /\ []C16_Bounded

\* With no pop yet, capacity pushes succeeded and the next returned Full;
\* then after exactly one pop exactly one further push succeeded and the
\* next returned Full again.
C16_Witness ==
    /\ Len(popped) = 1
    /\ producer.orders_sent = RING_BUFFER_CAPACITY + 1
    /\ producer.pc = "yield"
    /\ consumer.pc \in {"pop", "yield"}

\* C17: every packet the consumer has popped has been passed to
\* add_limit_order, once each and in pop order: the number of calls equals
\* the number of packets popped and the latest call's argument is the latest
\* packet popped.
C17_PoppedAreApplied ==
    /\ calls = Len(popped)
    /\ popped # << >> => order = popped[Len(popped)].order

\* ---------------------------------------------- reading the gateway
\* The elements of a sequence.
Range(seq) == {seq[k] : k \in 1..Len(seq)}

\* A line that is no Order: not blank, and not a JSON object with a side
\* Buy or Sell and non-negative integer id, price and quantity.
Malformed(line) ==
    /\ line.kind # "blank"
    /\ \/ line.kind # "json"
       \/ line.side \notin OrderSide
       \/ line.id < 0 \/ line.price < 0 \/ line.quantity < 0

\* The packet a well-formed line stands for.
PacketOf(line) == Packet(Order(line.id, line.side, line.price, line.quantity))

\* The packets in the ring or in a thread's hands.
InFlight ==
    {buffer[k] : k \in DOMAIN buffer} \cup {consumer.packet}

\* The line connection c takes in this step, if it takes one: the line it
\* goes on to push, or the line it answers, or else a blank line.
LineTaken(c) ==
    IF clients'[c].pc = "lock" THEN clients'[c].line
    ELSE IF Len(responses'[c]) > Len(responses[c])
    THEN responses'[c][Len(responses'[c])].line
    ELSE NoLine

\* C18: an order with quantity 0 is rejected at ingress: no packet with
\* quantity 0 is ever pushed into the queue, and every line carrying
\* quantity 0 that has been answered was answered with the error response.
C18_ZeroQuantityRejected ==
    /\ \A k \in 1..Len(pushed) : pushed[k].order.quantity > 0
    /\ \A c \in DOMAIN responses : \A k \in 1..Len(responses[c]) :
          (responses[c][k].line.kind = "json" /\ responses[c][k].line.quantity = 0)
              => responses[c][k].status = "error"

\* C19: when the line a handler takes fails to parse as an Order, that one
\* step writes the error response for it and changes nothing else: nothing
\* is pushed, the mutex is not taken, the ring and the OrderBook are as they
\* were, and the handler is back at reading lines.
C19_ParseErrorStep ==
    \A c \in DOMAIN clients :
        (/\ clients[c].pc = "read"
         /\ clients'[c].received = clients[c].received + 1
         /\ Malformed(LineTaken(c))) =>
            /\ clients'[c].pc = "read"
            /\ responses'[c] = Append(responses[c], Response(LineTaken(c), "error"))
            /\ UNCHANGED <<bookVars, queueVars, pushed, popped, mutex>>

C20_FullStep ==
    \A c \in DOMAIN clients :
        /\ (/\ clients[c].pc = "push"
            /\ Held(head, tail) = RING_BUFFER_CAPACITY
            /\ clients'[c] # clients[c]) =>
               /\ clients'[c].pc = "unlock"
               /\ clients'[c].push_result = "Full"
               /\ UNCHANGED <<queueVars, pushed>>
        /\ (clients[c].push_result = "Full" /\ clients'[c] # clients[c]) =>
               /\ UNCHANGED <<queueVars, pushed>>
               /\ \/ /\ clients[c].pc = "unlock"
                     /\ clients'[c].pc = "respond"
                     /\ clients'[c].push_result = "Full"
                  \/ /\ clients[c].pc = "respond"
                     /\ clients'[c].pc = "read"
                     /\ responses'[c] =
                           Append(responses[c], Response(clients[c].line, "dropped"))

C20_NeverDelivered ==
    \A c \in DOMAIN responses : \A k \in 1..Len(responses[c]) :
        responses[c][k].status = "dropped" =>
            PacketOf(responses[c][k].line) \notin
                Range(pushed) \cup Range(popped) \cup InFlight

C20_Dropped == [][C20_FullStep]_vars /\ []C20_NeverDelivered

\* An order was answered with dropped, its handler is back at reading
\* lines, and the consumer has since popped every packet that was queued.
C20_Witness ==
    \E c \in DOMAIN responses :
        /\ \E k \in 1..Len(responses[c]) : responses[c][k].status = "dropped"
        /\ clients[c].pc = "read"
        /\ Len(popped) = RING_BUFFER_CAPACITY
        /\ popped = pushed

\* The handlers that are inside p.push(packet).
Pushing == {c \in DOMAIN clients : clients[c].pc \in {"push", "write", "publish"}}

\* C21: every step of push is taken by a handler that holds the producer
\* mutex, so at most one handler is inside push at any instant: a handler
\* inside push is the holder, and a step that writes a slot (the consumer's
\* steps aside) or moves the write index is a step of the holder.
C21_HolderPushes ==
    /\ \A c \in Pushing : mutex = c
    /\ \A c, d \in Pushing : c = d

C21_PushStep ==
    ((buffer' # buffer /\ consumer' = consumer) \/ tail' # tail \/ pushed' # pushed) =>
        /\ mutex # 0
        /\ mutex' = mutex
        /\ clients[mutex].pc \in {"write", "publish"}
        /\ clients'[mutex] # clients[mutex]
        /\ \A c \in DOMAIN clients \ {mutex} : clients'[c] = clients[c]

C21_OnePusher == [][C21_PushStep]_vars /\ []C21_HolderPushes

\* One handler is inside push while another waits for the mutex.
C21_Witness ==
    \E c, d \in DOMAIN clients :
        /\ clients[c].pc = "write"
        /\ clients[d].pc = "lock"
        /\ mutex = c

\* The number of elements of seq that equal x.
RECURSIVE Count(_, _)
Count(seq, x) ==
    IF Len(seq) = 0 THEN 0
    ELSE (IF seq[1] = x THEN 1 ELSE 0) + Count(Tail(seq), x)

\* C30: each line that is not blank gets exactly one response on its
\* connection, written when its handling ends; the response is accepted
\* exactly when the order was pushed, and then it was pushed once; a blank
\* line gets no response and pushes nothing.
C30_OneResponse ==
    \A c \in DOMAIN clients :
        /\ Len(responses[c]) + (IF clients[c].pc = "read" THEN 0 ELSE 1)
              = clients[c].nonblank
        /\ \A k \in 1..Len(responses[c]) :
              /\ responses[c][k].line.kind # "blank"
              /\ responses[c][k].status = "accepted" =>
                    /\ responses[c][k].line.kind = "json"
                    /\ Count(pushed, PacketOf(responses[c][k].line)) = 1
              /\ responses[c][k].status # "accepted" =>
                    Count(pushed, PacketOf(responses[c][k].line)) = 0

C30_PushedAnswered ==
    \A k \in 1..Len(pushed) :
        \E c \in DOMAIN clients :
            \/ \E j \in 1..Len(responses[c]) :
                  /\ responses[c][j].status = "accepted"
                  /\ PacketOf(responses[c][j].line) = pushed[k]
            \/ /\ clients[c].pc \in {"unlock", "respond"}
               /\ clients[c].push_result = "Ok"
               /\ clients[c].packet = pushed[k]

C30_BlankStep ==
    \A c \in DOMAIN clients :
        (/\ clients'[c].received = clients[c].received + 1
         /\ clients'[c].nonblank = clients[c].nonblank) =>
            /\ clients'[c].pc = "read"
            /\ UNCHANGED <<responses, queueVars, pushed, mutex>>

C30_Responses ==
    [][C30_BlankStep]_vars /\ [](C30_OneResponse /\ C30_PushedAnswered)

\* A connection has sent a blank line and two other lines, one answered
\* accepted and one answered with an error.
C30_Witness ==
    \E c \in DOMAIN clients :
        /\ clients[c].received > clients[c].nonblank
        /\ \E j, k \in 1..Len(responses[c]) :
              /\ responses[c][j].status = "accepted"
              /\ responses[c][k].status = "error"

\* ------------------------------------------- the fate of a single order
\* The quantity the orders of a level hold under the given id.
RECURSIVE IdQuantity(_, _)
IdQuantity(orders, id) ==
    IF Len(orders) = 0 THEN 0
    ELSE (IF orders[1].id = id THEN orders[1].quantity ELSE 0)
         + IdQuantity(Tail(orders), id)

RECURSIVE IdQuantityOver(_, _, _)
IdQuantityOver(map, keys, id) ==
    IF keys = {} THEN 0
    ELSE LET p == CHOOSE q \in keys : TRUE
         IN  IdQuantity(map[p], id) + IdQuantityOver(map, keys \ {p}, id)

\* The quantity resting under the given id in a book of the two sides b, a.
RestingOf(b, a, id) ==
    IdQuantityOver(b, DOMAIN b, id) + IdQuantityOver(a, DOMAIN a, id)

\* Whether an order with the given id is stored in the book b, a.
InBook(b, a, id) == \E o \in Resting(b) \cup Resting(a) : o.id = id

\* The quantity the executions give the id as their maker, and as their taker.
RECURSIVE AsMaker(_, _)
AsMaker(execs, id) ==
    IF Len(execs) = 0 THEN 0
    ELSE (IF execs[1].maker_order_id = id THEN execs[1].quantity ELSE 0)
         + AsMaker(Tail(execs), id)

RECURSIVE AsTaker(_, _)
AsTaker(execs, id) ==
    IF Len(execs) = 0 THEN 0
    ELSE (IF execs[1].taker_order_id = id THEN execs[1].quantity ELSE 0)
         + AsTaker(Tail(execs), id)

\* C26: a call with an inbound order T of positive quantity ends with T
\* Filled (its executions sum to T's quantity and T is not in the book) or
\* Rested (the residual, T's quantity less its executions and positive, is
\* appended as the last element of the level at T.price on T's own side, a
\* new level if there was none, and T is nowhere else in the book); never
\* both, never neither.
C26_TerminalStep ==
    LET T == order'
        own == OwnSide(T.side)
        own2 == IF T.side = "Buy" THEN bids' ELSE asks'
        opp2 == IF T.side = "Buy" THEN asks' ELSE bids'
        residual == T.quantity - SumQuantity(executions')
        Filled == /\ residual = 0
                  /\ ~InBook(bids', asks', T.id)
        Rested == /\ residual > 0
                  /\ T.price \in DOMAIN own2
                  /\ own2[T.price] =
                        Append(IF T.price \in DOMAIN own THEN own[T.price] ELSE << >>,
                               [T EXCEPT !.quantity = residual])
                  /\ RestingOf(bids', asks', T.id) = residual
                  /\ \A o \in Resting(opp2) : o.id # T.id
    IN  T.quantity > 0 => (Filled \/ Rested) /\ ~(Filled /\ Rested)

C26_Terminal == [][C26_TerminalStep]_vars

\* The latest order was filled in part and its residual rests.
C26_Witness ==
    /\ executions # << >>
    /\ Residual > 0
    /\ InBook(bids, asks, order.id)

\* C27: a call whose inbound order of positive quantity is filled exactly
\* returns at least one execution and leaves the order's own side as it was,
\* keys included: no order and no level, empty or not, is added at its price.
C27_ExactFillStep ==
    LET T == order'
        own == OwnSide(T.side)
        own2 == IF T.side = "Buy" THEN bids' ELSE asks'
    IN  (T.quantity > 0 /\ SumQuantity(executions') = T.quantity) =>
            /\ executions' # << >>
            /\ DOMAIN own2 = DOMAIN own
            /\ own2 = own

C27_ExactFill == [][C27_ExactFillStep]_vars

\* The latest order was filled exactly, by two executions, and its own side
\* has no level at its price.
C27_Witness ==
    /\ order.quantity > 0
    /\ Residual = 0
    /\ Len(executions) >= 2
    /\ order.price \notin DOMAIN OwnSide(order.side)

\* C28: a resting order M that the latest call filled in part keeps its
\* priority in its level: when the next call rests an order N in the same
\* level, M, not N, is still the order of that level a crossing order is
\* matched with first.
C28_KeepsPriorityStep ==
    \A k \in 1..Len(executions) :
        LET M == executions[k].maker_order_id
            N == order'
            side == OpposingSide(order.side)
            side2 == IF order.side = "Buy" THEN asks' ELSE bids'
            p == executions[k].price
        IN  (/\ \E i \in 1..Len(side[p]) : side[p][i].id = M
             /\ N.side # order.side
             /\ N.price = p
             /\ Len(side2[p]) = Len(side[p]) + 1) =>
                PopValue(side2[p]).id = M

C28_KeepsPriority == [][C28_KeepsPriorityStep]_vars

\* C29: an order leaves the book only by being consumed.  In every call, for
\* the inbound order and for every order resting when the call begins, the
\* quantity it had (its submitted quantity, its resting quantity) equals the
\* quantity the call's executions give it as taker and as maker plus the
\* quantity it rests with afterwards; it is in the book afterwards exactly
\* when that quantity is positive; and no other id enters the book or an
\* execution.  Summed over the calls this is: submitted = executed as taker
\* + executed as maker + resting.
C29_LedgerStep ==
    LET T == order'
        before == {o.id : o \in Resting(bids) \cup Resting(asks)}
    IN  /\ T.quantity = AsTaker(executions', T.id)
                        + AsMaker(executions', T.id)
                        + RestingOf(bids', asks', T.id)
        /\ \A id \in before :
              /\ RestingOf(bids, asks, id) =
                    AsTaker(executions', id) + AsMaker(executions', id)
                    + RestingOf(bids', asks', id)
              /\ AsTaker(executions', id) = 0
        /\ \A id \in before \cup {T.id} :
              InBook(bids', asks', id) <=> RestingOf(bids', asks', id) > 0
        /\ \A o \in Resting(bids') \cup Resting(asks') : o.id \in before \cup {T.id}
        /\ \A k \in 1..Len(executions') :
              /\ executions'[k].taker_order_id = T.id
              /\ executions'[k].maker_order_id \in before

C29_Ledger == [][C29_LedgerStep]_vars

\* The latest call consumed one resting order entirely, which has left the
\* book, and another in part, which rests with what is left of it.
C29_Witness ==
    /\ Len(executions) >= 2
    /\ \E k \in 1..Len(executions) :
          ~InBook(bids, asks, executions[k].maker_order_id)
    /\ \E k \in 1..Len(executions) :
          InBook(bids, asks, executions[k].maker_order_id)

\* ------------------------------------------------- reading the HTTP server
\* The handlers inside the scope of their MutexGuard, and those inside
\* add_limit_order.
Guarded == {h \in 1..Len(handlers) :
               handlers[h].pc \in {"match", "rest", "to_json", "respond"}}
Submitting == {h \in 1..Len(handlers) : handlers[h].pc \in {"match", "rest"}}

\* C22: a handler that is inside add_limit_order or to_json, up to its
\* response, is the holder of the book mutex, so no two of them overlap;
\* every step that changes the book is a step of the holder; and to_json
\* runs while no handler is inside add_limit_order: the snapshot is the
\* book as a completed call left it.
C22_HolderOnly ==
    /\ \A h \in Guarded : book_mutex = h
    /\ \A g, h \in Guarded : g = h

C22_AccessStep ==
    /\ (bids' # bids \/ asks' # asks) =>
          /\ book_mutex \in Submitting
          /\ book_mutex' = book_mutex
          /\ \A g \in 1..Len(handlers) :
                g # book_mutex => handlers'[g] = handlers[g]
    /\ \A h \in 1..Len(handlers) :
          (handlers[h].pc = "to_json" /\ handlers'[h].pc # "to_json") =>
              /\ book_mutex = h
              /\ Submitting = {}
              /\ handlers'[h].response.json = to_json(bids, asks)
              /\ UNCHANGED <<bids, asks>>

C22_BookUnderMutex == [][C22_AccessStep]_vars /\ []C22_HolderOnly

\* A snapshot of a book with a resting order is being answered while a
\* handler with an order waits for the mutex.
C22_Witness ==
    \E g, h \in 1..Len(handlers) :
        /\ handlers[h].pc = "respond"
        /\ handlers[h].response.status = "json"
        /\ handlers[h].response.json.asks # << >>
        /\ handlers[g].pc = "lock"
        /\ handlers[g].request.method = "POST"

\* C23: the executions of two submits never interleave: in the sequence of
\* all executions, in the order they were pushed, the executions of one
\* taker are contiguous; and an execution is pushed only by the handler
\* that holds the mutex, for its own order, while no other handler is
\* inside add_limit_order.
C23_Contiguous ==
    \A i, k \in 1..Len(emitted) :
        (i < k /\ emitted[i].taker_order_id = emitted[k].taker_order_id) =>
            \A j \in i..k : emitted[j].taker_order_id = emitted[i].taker_order_id

C23_EmitStep ==
    emitted' # emitted =>
        /\ book_mutex \in 1..Len(handlers)
        /\ handlers[book_mutex].pc = "match"
        /\ Submitting = {book_mutex}
        /\ Len(emitted') = Len(emitted) + 1
        /\ SubSeq(emitted', 1, Len(emitted)) = emitted
        /\ emitted'[Len(emitted')].taker_order_id = handlers[book_mutex].taken.id

C23_NoInterleaving == [][C23_EmitStep]_vars /\ []C23_Contiguous

\* Two submits, issued by two handler threads, have each produced an
\* execution.
C23_Witness ==
    \E i, k \in 1..Len(emitted) :
        emitted[i].taker_order_id # emitted[k].taker_order_id

\* C24: every call to add_limit_order ends.  Each iteration of the match
\* loop either leaves the loop, the order as it was, or goes round with the
\* inbound order's remaining quantity strictly smaller and not below 0; so
\* a call makes at most as many iterations as the order has quantity, and
\* whenever a handler is inside add_limit_order (one at a time, C22) there
\* comes a state where none is: the call has returned.
C24_IterationStep ==
    \A h \in 1..Len(handlers) :
        (handlers[h].pc = "match" /\ handlers'[h] # handlers[h]) =>
            \/ /\ handlers'[h].pc = "rest"
               /\ handlers'[h].order = handlers[h].order
               /\ UNCHANGED <<bids, asks>>
            \/ /\ handlers'[h].pc = "match"
               /\ handlers'[h].order.quantity < handlers[h].order.quantity
               /\ handlers'[h].order.quantity >= 0
               /\ Len(handlers'[h].executions) = Len(handlers[h].executions) + 1

C24_BoundedIterations ==
    \A h \in 1..Len(handlers) :
        Len(handlers[h].executions) + handlers[h].order.quantity
            <= handlers[h].taken.quantity

C24_LeavesLoop == (Submitting # {}) ~> (Submitting = {})

C24_Terminates ==
    [][C24_IterationStep]_vars /\ []C24_BoundedIterations /\ C24_LeavesLoop

\* A call has gone round the loop twice and left it with quantity 0.
C24_Witness ==
    \E h \in 1..Len(handlers) :
        /\ handlers[h].pc = "rest"
        /\ Len(handlers[h].executions) = 2
        /\ handlers[h].order.quantity = 0

\* C25: the document to_json returns lists, for bids and for asks, every
\* price key of the side once, in strictly ascending price order, and with
\* each price the level as the book stores it when to_json runs: the same
\* orders, with their remaining quantities, in the same order.
Listed(json_side, map) ==
    /\ Len(json_side) = Cardinality(DOMAIN map)
    /\ \A i \in 1..Len(json_side) :
          /\ json_side[i].price \in DOMAIN map
          /\ json_side[i].orders = map[json_side[i].price]
    /\ \A i, k \in 1..Len(json_side) :
          i < k => json_side[i].price < json_side[k].price

C25_SnapshotStep ==
    \A h \in 1..Len(handlers) :
        (handlers[h].pc = "to_json" /\ handlers'[h].pc # "to_json") =>
            /\ Listed(handlers'[h].response.json.bids, bids)
            /\ Listed(handlers'[h].response.json.asks, asks)

Inbound(id) ==
    {Order(id, side, price, quantity) :
        side \in OrderSide, quantity \in 0..MaxQty,
        price \in PriceBase..(PriceBase + MaxPrice - 1)}

\* The price p of a resting opposing order is within the limit of o.
WithinLimit(o, p) == IF o.side = "Buy" THEN p <= o.price ELSE p >= o.price

\* The sides of the book after the step, seen from an order of side s.
OwnSideAfter(s) == IF s = "Buy" THEN bids' ELSE asks'
OpposingSideAfter(s) == IF s = "Buy" THEN asks' ELSE bids'

\* C32: every execution a call returns has quantity >= 1, names the inbound
\* order as its taker, and names as its maker an order that was resting on
\* the opposite side when the call began.
C32_ExecutionStep ==
    \A k \in 1..Len(executions') :
        /\ executions'[k].quantity >= 1
        /\ executions'[k].taker_order_id = order'.id
        /\ \E m \in Resting(OpposingSide(order'.side)) :
              m.id = executions'[k].maker_order_id

C32_Execution == [][C32_ExecutionStep]_vars

\* The latest call returned executions against two different makers.
C32_Witness ==
    \E j, k \in 1..Len(executions) :
        executions[j].maker_order_id # executions[k].maker_order_id

\* C33: whenever the book is in a state where an order of positive quantity
\* would find, on the opposing side, a resting order whose price is within
\* its limit, add_limit_order called with that order returns at least one
\* execution.
C33_CrossingExecutes ==
    \A o \in Inbound(calls + 1) :
        (/\ o.quantity > 0
         /\ \E m \in Resting(OpposingSide(o.side)) : WithinLimit(o, m.price)) =>
            MatchLoop(OpposingSide(o.side), o, << >>).executions # << >>

\* C34: no call removes a price key: the keys of bids and of asks after a
\* call include the keys before it, also when a level was emptied.
C34_KeysStep ==
    /\ DOMAIN bids \subseteq DOMAIN bids'
    /\ DOMAIN asks \subseteq DOMAIN asks'

C34_KeysOnlyGrow == [][C34_KeysStep]_vars

\* The latest call filled every order of a level, and the level's key is
\* still in the map.
C34_Witness ==
    \E k \in 1..Len(executions) :
        /\ executions[k].price \in DOMAIN OpposingSide(order.side)
        /\ OpposingSide(order.side)[executions[k].price] = << >>

\* C35: a call leaves alone what matching does not need.  On the inbound
\* order's own side every level is as it was, but that the residual may be
\* appended to the level at the order's price (a new level if there was
\* none); on the opposing side no key is added and every level whose price
\* is beyond the limit is as it was.
C35_FrameStep ==
    LET T == order'
        own == OwnSide(T.side)
        own2 == OwnSideAfter(T.side)
        opp == OpposingSide(T.side)
        opp2 == OpposingSideAfter(T.side)
        residual == [T EXCEPT !.quantity = T.quantity - SumQuantity(executions')]
    IN  /\ DOMAIN own2 \subseteq DOMAIN own \cup {T.price}
        /\ \A p \in DOMAIN own :
              \/ own2[p] = own[p]
              \/ p = T.price /\ own2[p] = Append(own[p], residual)
        /\ \A p \in DOMAIN own2 \ DOMAIN own : own2[p] = <<residual>>
        /\ DOMAIN opp2 \subseteq DOMAIN opp
        /\ \A p \in DOMAIN opp : ~WithinLimit(T, p) => opp2[p] = opp[p]

C35_Frame == [][C35_FrameStep]_vars

\* The latest call matched, rested its residual, and left alone an opposing
\* level that holds an order beyond its limit.
C35_Witness ==
    /\ executions # << >>
    /\ Residual > 0
    /\ \E p \in LiveKeys(OpposingSide(order.side)) : ~WithinLimit(order, p)

\* The slots of the order with the given id in a side.
SlotsOf(map, id) == {s \in Slots(map) : map[s[1]][s[2]].id = id}

\* C38: an order stored in bids[p] has side Buy and price p, an order stored
\* in asks[p] has side Sell and price p; and across a call an order that
\* rests before and after it is on the same side at the same price key with
\* the same id, side and price, its quantity not larger than before.
C38_StoredWhereItBelongs ==
    /\ \A s \in Slots(bids) :
          bids[s[1]][s[2]].side = "Buy" /\ bids[s[1]][s[2]].price = s[1]
    /\ \A s \in Slots(asks) :
          asks[s[1]][s[2]].side = "Sell" /\ asks[s[1]][s[2]].price = s[1]

C38_RestingStep ==
    /\ \A s \in Slots(bids) :
          LET o == bids[s[1]][s[2]]
          IN  /\ SlotsOf(asks', o.id) = {}
              /\ \A t \in SlotsOf(bids', o.id) :
                    /\ t[1] = s[1]
                    /\ bids'[t[1]][t[2]].side = o.side
                    /\ bids'[t[1]][t[2]].price = o.price
                    /\ bids'[t[1]][t[2]].quantity <= o.quantity
    /\ \A s \in Slots(asks) :
          LET o == asks[s[1]][s[2]]
          IN  /\ SlotsOf(bids', o.id) = {}
              /\ \A t \in SlotsOf(asks', o.id) :
                    /\ t[1] = s[1]
                    /\ asks'[t[1]][t[2]].side = o.side
                    /\ asks'[t[1]][t[2]].price = o.price
                    /\ asks'[t[1]][t[2]].quantity <= o.quantity

C38_Consistent == [][C38_RestingStep]_vars /\ []C38_StoredWhereItBelongs

\* Both sides hold an order, one of them a maker that the latest call
\* filled in part.
C38_Witness ==
    /\ Resting(bids) # {}
    /\ Resting(asks) # {}
    /\ \E k \in 1..Len(executions) :
          InBook(bids, asks, executions[k].maker_order_id)

\* C39: no subtraction in the match loop goes below 0.  For the k-th
\* execution of a call, the matched quantity is at most what the inbound
\* order has left after the executions before it, and at most what its maker
\* has left after them; so neither difference is negative.
C39_NoUnderflowStep ==
    \A k \in 1..Len(executions') :
        LET e == executions'[k]
            taker_left == order'.quantity
                          - SumQuantity(SubSeq(executions', 1, k - 1))
            maker_left == RestingOf(bids, asks, e.maker_order_id)
                          - FilledBefore(executions', k, e.maker_order_id)
        IN  /\ e.quantity <= taker_left
            /\ e.quantity <= maker_left
            /\ taker_left - e.quantity >= 0
            /\ maker_left - e.quantity >= 0

C39_NoUnderflow == [][C39_NoUnderflowStep]_vars

\* The latest call had an execution smaller than the inbound order, bounded
\* by its maker, and one that left its maker resting, bounded by the taker.
C39_Witness ==
    /\ \E k \in 1..Len(executions) : executions[k].quantity < order.quantity
    /\ \E m \in Resting(OpposingSide(order.side)) :
          \E k \in 1..Len(executions) : m.id = executions[k].maker_order_id

\* ------------------------------------------------ the phase-1 engine
\* C40: in the phase-1 engine, add_limit_order leaves bids and asks unchanged
\* when the order crosses (a Buy at or above some ask key, a Sell at or below
\* some bid key) and otherwise appends the order to the level at its price on
\* its own side and leaves everything else alone; so the book is never
\* crossed and holds no empty level.
C40_CallStep ==
    LET o == order'
        opposing == IF o.side = "Buy" THEN asks ELSE bids
        own == IF o.side = "Buy" THEN bids ELSE asks
        own_after == IF o.side = "Buy" THEN bids' ELSE asks'
        opposing_after == IF o.side = "Buy" THEN asks' ELSE bids'
    IN  IF \E p \in DOMAIN opposing : WithinLimit(o, p)
        THEN bids' = bids /\ asks' = asks
        ELSE /\ opposing_after = opposing
             /\ DOMAIN own_after = DOMAIN own \cup {o.price}
             /\ \A p \in DOMAIN own : p # o.price => own_after[p] = own[p]
             /\ own_after[o.price] =
                   (IF o.price \in DOMAIN own THEN own[o.price] ELSE << >>)
                   \o <<o>>

C40_NeverCrossed ==
    /\ \A b \in DOMAIN bids : \A a \in DOMAIN asks : b < a
    /\ \A p \in DOMAIN bids : Len(bids[p]) >= 1
    /\ \A p \in DOMAIN asks : Len(asks[p]) >= 1

C40_Phase1 == [][C40_CallStep]_vars /\ []C40_NeverCrossed

\* Both sides hold orders and the latest call crossed, so its order is not
\* in the book.
C40_Witness ==
    /\ DOMAIN bids # {}
    /\ DOMAIN asks # {}
    /\ calls >= 1
    /\ order.id = calls
    /\ ~ InBook(bids, asks, order.id)

\* ------------------------------------------- one connection, in order
\* The connection whose line carried the order of the packet, and the number
\* of that line within its connection.
ConnectionOf(packet) == packet.order.id \div 10
LineNumberOf(packet) == packet.order.id % 10

\* C37: within one gateway connection, a line is taken up only when every
\* earlier non-blank line of that connection has its response, a packet is
\* pushed only when every earlier line of its connection has its response,
\* and the packets of one connection stand in the queue's push order in the
\* order of their lines, whatever the other handler threads do in between.
C37_LineStep ==
    \A c \in DOMAIN clients :
        /\ clients'[c].received # clients[c].received =>
              /\ clients'[c].received = clients[c].received + 1
              /\ Len(responses[c]) = clients[c].nonblank
        /\ (Len(pushed') > Len(pushed)
              /\ ConnectionOf(pushed'[Len(pushed')]) = c) =>
              /\ LineNumberOf(pushed'[Len(pushed')]) = clients[c].received
              /\ Len(responses[c]) = clients[c].nonblank - 1

C37_PushOrder ==
    \A i, j \in 1..Len(pushed) :
        (i < j /\ ConnectionOf(pushed[i]) = ConnectionOf(pushed[j]))
            => LineNumberOf(pushed[i]) < LineNumberOf(pushed[j])

C37_InOrder == [][C37_LineStep]_vars /\ []C37_PushOrder

\* A connection has pushed two orders, both answered, and another
\* connection has pushed one between them.
C37_Witness ==
    \E c \in DOMAIN clients :
        /\ Len(responses[c]) >= 2
        /\ \E i, j, k \in 1..Len(pushed) :
              /\ i < j /\ j < k
              /\ ConnectionOf(pushed[i]) = c
              /\ ConnectionOf(pushed[j]) # c
              /\ ConnectionOf(pushed[k]) = c

\* ------------------------------------------- the pipeline runs to its end
\* C36: in the pipeline of main.rs the producer goes on to the next order
\* only once the current one is in the queue (on Full it retries the same
\* order), so the orders 0, 1, 2, ... are pushed once each in this order,
\* the consumer pops them in this order, and the consumer has never
\* processed more orders than have been pushed.  The producer's own counter
\* orders_sent is written after push has returned and trails the pushes by
\* at most one.  With both threads scheduled fairly, both end, with all
\* TOTAL_ORDERS orders pushed and popped.
C36_NeverDropsStep ==
    /\ producer'.i # producer.i =>
          /\ producer'.i = producer.i + 1
          /\ Len(pushed) = producer.i + 1
    /\ (producer.pc = "yield" /\ producer' # producer) =>
          /\ producer'.pc = "push"
          /\ producer'.i = producer.i

C36_Safe ==
    /\ Len(pushed) <= TOTAL_ORDERS
    /\ \A k \in 1..Len(pushed) : pushed[k] = Packet(MarketOrder(k - 1))
    /\ Len(popped) <= Len(pushed)
    /\ \A k \in 1..Len(popped) : popped[k] = Packet(MarketOrder(k - 1))
    /\ consumer.orders_processed <= Len(popped)
    /\ consumer.orders_processed <= Len(pushed)
    /\ producer.orders_sent <= Len(pushed)
    /\ Len(pushed) <= producer.orders_sent + 1

C36_Done ==
    /\ producer.pc = "done"
    /\ consumer.pc = "done"
    /\ producer.orders_sent = TOTAL_ORDERS
    /\ consumer.orders_processed = TOTAL_ORDERS
    /\ Len(pushed) = TOTAL_ORDERS
    /\ Len(popped) = TOTAL_ORDERS

C36_Pipeline == [][C36_NeverDropsStep]_vars /\ []C36_Safe /\ <>[]C36_Done

\* Both threads have ended with every order pushed and popped.
C36_Witness ==
    /\ producer.pc = "done"
    /\ consumer.pc = "done"
    /\ Len(popped) = TOTAL_ORDERS
    /\ popped = pushed

\* ------------------------------------------------- a ring of one slot
\* C31: with a queue of capacity 1, pushes and pops alternate, a push first:
\* a push succeeds only when every packet pushed before has been popped, a
\* pop succeeds only when one packet is waiting, the packets popped are the
\* packets pushed, in their order, and in the end every packet pushed has
\* been popped, once.
C31_AlternationStep ==
    /\ Len(pushed') > Len(pushed) =>
          /\ Len(pushed') = Len(pushed) + 1
          /\ Len(popped) = Len(pushed)
    /\ Len(popped') > Len(popped) =>
          /\ Len(popped') = Len(popped) + 1
          /\ Len(pushed) = Len(popped) + 1
          /\ popped'[Len(popped')] = pushed[Len(pushed)]

C31_AtMostOne ==
    /\ Capacity = 1
    /\ Len(pushed) - Len(popped) \in {0, 1}
    /\ \A k \in 1..Len(popped) : popped[k] = pushed[k]
    /\ \A i, j \in 1..Len(pushed) : i # j => pushed[i] # pushed[j]

C31_AllPopped == <>[](popped = pushed /\ Len(pushed) = TOTAL_ORDERS)

C31_CapacityOne ==
    [][C31_AlternationStep]_vars /\ []C31_AtMostOne /\ C31_AllPopped

\* The producer has found the one slot taken and waits, after a packet has
\* been pushed, popped, and the next one pushed.
C31_Witness ==
    /\ Capacity = 1
    /\ producer.pc = "yield"
    /\ Len(pushed) = 2
    /\ Len(popped) = 1

====
